---- MODULE Spec2Model ----
(***************************************************************************)
(* Model of the accident API (app.py) and of the module it imports         *)
(* (model_accident.py).                                                    *)
(*                                                                         *)
(* Strings that the code inspects character by character (CSV fields) are  *)
(* sequences of one-character strings.  Python's None is the empty         *)
(* sequence and a present value v is <<v>>.  Floats that the code rounds   *)
(* to two decimals are integers counting hundredths, computed from the     *)
(* exact quotient (round-half-to-even, as round() of Python does on the    *)
(* decimal value of its argument).                                         *)
(***************************************************************************)
EXTENDS Integers, Sequences, FiniteSets, TLC

VARIABLES
    phase,        \* "boot": app.py line 7 not yet run; "serving"; "crashed"
    accidents,    \* AccidentManager.accidents
    id_counter,   \* AccidentManager.id_counter
    model,        \* AccidentManager.model: None or the fitted regression
    result,       \* what the last call returned or raised to its caller
    created,      \* history: the records add_accident has returned so far
    trained_len,  \* history: len(accidents) at the last effective fit
    tpc,          \* per request thread: position inside add_accident
    taccident,    \* per request thread: the local variable `accident`
    tcounter      \* per request thread: id_counter as read by `+= 1`

vars == <<phase, accidents, id_counter, model, result, created,
          trained_len, tpc, taccident, tcounter>>

\* ---------------------------------------------------------------- bounds
MaxStore == 5
MaxPage == 3
MaxPerPage == 2
NumThreads == 2

None == <<>>
Some(v) == <<v>>

\* ------------------------------------------------------- Python helpers
Digits == {"0", "1", "2", "3", "4", "5", "6", "7", "8", "9"}

DigitVal(c) ==
    CASE c = "0" -> 0 [] c = "1" -> 1 [] c = "2" -> 2 [] c = "3" -> 3
      [] c = "4" -> 4 [] c = "5" -> 5 [] c = "6" -> 6 [] c = "7" -> 7
      [] c = "8" -> 8 [] c = "9" -> 9

\* s[1:-1] on a str
StripQuotes(s) ==
    IF Len(s) <= 2 THEN <<>> ELSE SubSeq(s, 2, Len(s) - 1)

RECURSIVE LStrip(_)
LStrip(s) ==
    IF s # <<>> /\ Head(s) = " " THEN LStrip(Tail(s)) ELSE s

RECURSIVE RStrip(_)
RStrip(s) ==
    IF s # <<>> /\ s[Len(s)] = " " THEN RStrip(SubSeq(s, 1, Len(s) - 1)) ELSE s

\* digits, with single underscores allowed between two digits
WellFormedDigits(s) ==
    /\ s # <<>>
    /\ s[1] \in Digits
    /\ s[Len(s)] \in Digits
    /\ \A i \in 1..Len(s) : s[i] \in Digits \cup {"_"}
    /\ \A i \in 1..(Len(s) - 1) : ~(s[i] = "_" /\ s[i + 1] = "_")

RECURSIVE DigitsValue(_, _)
DigitsValue(s, acc) ==
    IF s = <<>> THEN acc
    ELSE IF Head(s) = "_" THEN DigitsValue(Tail(s), acc)
    ELSE DigitsValue(Tail(s), 10 * acc + DigitVal(Head(s)))

\* int(val, 10): surrounding blanks are dropped, one sign is allowed;
\* anything else raises ValueError
PyInt(val) ==
    LET t == RStrip(LStrip(val))
        signed == t # <<>> /\ Head(t) \in {"+", "-"}
        body == IF signed THEN Tail(t) ELSE t
    IN  IF WellFormedDigits(body)
        THEN [exc |-> "none",
              val |-> IF signed /\ Head(t) = "-"
                      THEN 0 - DigitsValue(body, 0)
                      ELSE DigitsValue(body, 0)]
        ELSE [exc |-> "ValueError", val |-> 0]

\* lst[start:end] on a list
PySlice(s, start, end) ==
    LET n == Len(s)
        norm(i) == IF i < 0 THEN (IF i + n < 0 THEN 0 ELSE i + n)
                   ELSE IF i > n THEN n ELSE i
        lo == norm(start)
        hi == norm(end)
    IN  IF lo < hi THEN SubSeq(s, lo + 1, hi) ELSE <<>>

\* a // b and a % b for b # 0 (floor division, remainder with the sign of b)
PyFloorDiv(a, b) == IF b > 0 THEN a \div b ELSE (0 - a) \div (0 - b)
PyMod(a, b) == a - b * PyFloorDiv(a, b)

\* round(num / den, 2) in hundredths, den > 0
Round2(num, den) ==
    LET q == (200 * num + den) \div (2 * den)
        tie == (200 * num + den) % (2 * den) = 0
    IN  IF tie /\ q % 2 = 1 THEN q - 1 ELSE q

\* sum(...) over a list of integers
RECURSIVE PySum(_)
PySum(s) ==
    IF s = <<>> THEN 0 ELSE Head(s) + PySum(Tail(s))

\* ------------------------------------------------- model_accident.py
convert_grav(val) ==
    IF val = <<"1">> THEN 1
    ELSE IF val = <<"2">> THEN 100
    ELSE IF val = <<"3">> THEN 10
    ELSE IF val = <<"4">> THEN 5
    ELSE 0 - 1

convert_annee(val) ==
    IF Len(val) # 4 THEN [exc |-> "none", val |-> 0 - 1]
    ELSE PyInt(val)

\* one row of lire_fichier_csv's result converted as both ingestion loops
\* do: [exc, annee, gravite]
ConvertRow(d) ==
    LET a == convert_annee(StripQuotes(d[9]))
    IN  [exc |-> a.exc, annee |-> a.val,
         gravite |-> convert_grav(StripQuotes(d[7]))]

LongEnough(rows) == SelectSeq(rows, LAMBDA d : Len(d) > 8)

\* the module-level pipeline of model_accident.py: no exception handler
ModuleLevelXY(rows) ==
    LET data_usagers == LongEnough(rows)
        conv == [i \in 1..Len(data_usagers) |-> ConvertRow(data_usagers[i])]
    IN  IF \E i \in 1..Len(conv) : conv[i].exc # "none"
        THEN [exc |-> "ValueError", xy |-> <<>>]
        ELSE [exc |-> "none",
              xy |-> SelectSeq(conv,
                       LAMBDA c : c.annee > 0 - 1 /\ c.gravite > 0 - 1)]

\* ------------------------------------------------- AccidentManager
\* add_accident that forgets `self.id_counter += 1`
add_accident_no_increment(accs, idc, annee, gravite) ==
    LET accident == [id |-> idc, annee |-> annee, gravite |-> gravite]
    IN  [accidents |-> Append(accs, accident),
         id_counter |-> idc,
         accident |-> accident]

\* add_accident on store (accs, idc): the new store and the returned record
add_accident(accs, idc, annee, gravite) ==
    LET accident == [id |-> idc, annee |-> annee, gravite |-> gravite]
    IN  [accidents |-> Append(accs, accident),
         id_counter |-> idc + 1,
         accident |-> accident]

\* get_all_accidents whose slice starts at page * per_page
get_all_accidents_zero_based(accs, page, per_page) ==
    LET start == page * per_page
        end == start + per_page
        items == PySlice(accs, start, end)
    IN  IF per_page = 0
        THEN [exc |-> "ZeroDivisionError", value |-> None]
        ELSE [exc |-> "none",
              value |-> Some([items |-> items,
                              total |-> Len(accs),
                              pages |-> PyFloorDiv(Len(accs), per_page)
                                        + (IF PyMod(Len(accs), per_page) # 0
                                           THEN 1 ELSE 0),
                              page |-> page])]

get_all_accidents(accs, page, per_page) ==
    LET start == (page - 1) * per_page
        end == start + per_page
        items == PySlice(accs, start, end)
    IN  IF per_page = 0
        THEN [exc |-> "ZeroDivisionError", value |-> None]
        ELSE [exc |-> "none",
              value |-> Some([items |-> items,
                              total |-> Len(accs),
                              pages |-> PyFloorDiv(Len(accs), per_page)
                                        + (IF PyMod(Len(accs), per_page) # 0
                                           THEN 1 ELSE 0),
                              page |-> page])]

\* get_accident_by_id that takes the id for a list index
get_accident_by_index(accs, id) ==
    IF id \in 0..(Len(accs) - 1) THEN Some(accs[id + 1]) ELSE None

RECURSIVE get_accident_by_id(_, _)
get_accident_by_id(accs, id) ==
    IF accs = <<>> THEN None
    ELSE IF Head(accs).id = id THEN Some(Head(accs))
    ELSE get_accident_by_id(Tail(accs), id)

\* get_stats that truncates the means instead of rounding them
get_stats_truncating(accs) ==
    IF accs = <<>>
    THEN [total_accidents |-> 0, annee_moyenne |-> 0, gravite_moyenne |-> 0]
    ELSE LET annee_sum == PySum([i \in 1..Len(accs) |-> accs[i].annee])
             gravite_sum == PySum([i \in 1..Len(accs) |-> accs[i].gravite])
             count == Len(accs)
         IN  [total_accidents |-> count,
              annee_moyenne |-> (100 * annee_sum) \div count,
              gravite_moyenne |-> (100 * gravite_sum) \div count]

get_stats(accs) ==
    IF accs = <<>>
    THEN [total_accidents |-> 0, annee_moyenne |-> 0, gravite_moyenne |-> 0]
    ELSE LET annee_sum == PySum([i \in 1..Len(accs) |-> accs[i].annee])
             gravite_sum == PySum([i \in 1..Len(accs) |-> accs[i].gravite])
             count == Len(accs)
         IN  [total_accidents |-> count,
              annee_moyenne |-> Round2(annee_sum, count),
              gravite_moyenne |-> Round2(gravite_sum, count)]

\* LinearRegression().fit(x_annee, y_gravite) as exact rationals:
\* coef_ = num / den over the centred data (0 when every year is the same),
\* intercept_ = sy / n - coef_ * sx / n
Fit(accs) ==
    LET n == Len(accs)
        sx == PySum([i \in 1..n |-> accs[i].annee])
        sy == PySum([i \in 1..n |-> accs[i].gravite])
        sxx == PySum([i \in 1..n |-> accs[i].annee * accs[i].annee])
        sxy == PySum([i \in 1..n |-> accs[i].annee * accs[i].gravite])
        d == n * sxx - sx * sx
    IN  IF d = 0
        THEN [num |-> 0, den |-> 1, n |-> n, sx |-> sx, sy |-> sy]
        ELSE [num |-> n * sxy - sx * sy, den |-> d, n |-> n, sx |-> sx, sy |-> sy]

\* train_prediction_model that keeps a fit it already has
train_prediction_model_once(accs, mdl) ==
    IF Len(accs) = 0 \/ mdl # None THEN mdl ELSE Some(Fit(accs))

\* the value of self.model after train_prediction_model
train_prediction_model(accs, mdl) ==
    IF Len(accs) = 0 THEN mdl ELSE Some(Fit(accs))

\* model.predict([[annee]])[0], rounded to two decimals (hundredths)
Predict(fit, annee) ==
    Round2(fit.sy * fit.den + fit.num * (fit.n * annee - fit.sx),
           fit.n * fit.den)

\* predict_gravite whose `is None` test is inverted
predict_gravite_inverted(mdl, annee) ==
    IF mdl # None
    THEN [error |-> "Le modele n'a pas ete entraine"]
    ELSE [annee |-> annee, gravite_predite |-> 0]

predict_gravite(mdl, annee) ==
    IF mdl = None
    THEN [error |-> "Le modele n'a pas ete entraine"]
    ELSE [annee |-> annee, gravite_predite |-> Predict(mdl[1], annee)]

\* the loop of load_data_from_csv: rows that raise ValueError are skipped
RECURSIVE IngestRows(_, _, _)
IngestRows(rows, accs, idc) ==
    IF rows = <<>> THEN [accidents |-> accs, id_counter |-> idc]
    ELSE LET c == ConvertRow(Head(rows))
         IN  IF c.exc = "none" /\ c.annee > 0 - 1 /\ c.gravite > 0 - 1
             THEN LET r == add_accident(accs, idc, c.annee, c.gravite)
                  IN  IngestRows(Tail(rows), r.accidents, r.id_counter)
             ELSE IngestRows(Tail(rows), accs, idc)

load_data_from_csv(rows, accs, idc) == IngestRows(LongEnough(rows), accs, idc)

\* ------------------------------------------------------------- inputs
Threads == 1..NumThreads

Q == "\""
Quoted(s) == <<Q>> \o s \o <<Q>>

\* a row of n fields whose fields 6 and 8 (0-based) are grav and annee
Row(n, grav, annee) ==
    [i \in 1..n |-> IF i = 7 THEN grav ELSE IF i = 9 THEN annee ELSE <<>>]

Y2020 == <<"2", "0", "2", "0">>
Y2021 == <<"2", "0", "2", "1">>

\* contents of data/usagers-2023.csv after lire_fichier_csv; the file is
\* read anew by the import and by every load_data_from_csv call
Files ==
    { <<>>,
      << Row(9, Quoted(<<"1">>), Quoted(Y2020)),
         Row(7, Quoted(<<"1">>), <<>>),
         Row(10, Quoted(<<"4">>), Quoted(Y2021)) >>,
      << Row(9, Quoted(<<"9">>), Quoted(Y2021)),
         Row(9, Quoted(<<"1">>), Quoted(Y2020)),
         Row(9, Quoted(<<"4">>), Quoted(<<"2", "0">>)),
         Row(9, Quoted(<<"4">>), Quoted(Y2021)) >>,
      << Row(9, Quoted(<<"1">>), Quoted(<<"-", "0", "0", "1">>)),
         Row(9, Quoted(<<"1">>), Y2020),
         Row(9, <<"1">>, Quoted(Y2020)),
         Row(9, Quoted(<<>>), Quoted(<<>>)) >>,
      << Row(9, Quoted(<<"1">>), Quoted(<<"a", "b", "c", "d">>)),
         Row(9, Quoted(<<"1">>), Quoted(Y2020)) >>,
      << Row(9, Quoted(<<"1">>), Quoted(Y2020)),
         Row(9, Quoted(<<"4">>), Quoted(<<"2", "0", "2", "x">>)),
         Row(9, Quoted(<<"4">>), Quoted(Y2021)) >> }

\* (annee, gravite) arguments of add_accident
AddInputs == { <<2020, 1>>, <<2021, 5>> }

PageInputs == (0 - 1)..MaxPage
PerPageInputs == (0 - 1)..MaxPerPage
IdInputs == 0..(MaxStore + 1)
PredictInputs == {2020, 2023}

Returned(op, args, value) ==
    [op |-> op, args |-> args, exc |-> "none", value |-> value]
Raised(op, args, exc) ==
    [op |-> op, args |-> args, exc |-> exc, value |-> None]

\* ----------------------------------------------------------- behaviour
Init ==
    /\ phase = "boot"
    /\ accidents = <<>>
    /\ id_counter = 1
    /\ model = None
    /\ result = Returned("none", <<>>, None)
    /\ created = {}
    /\ trained_len = 0
    /\ tpc = [t \in Threads |-> "idle"]
    /\ taccident = [t \in Threads |-> None]
    /\ tcounter = [t \in Threads |-> 0]

Serving == phase = "serving"

\* app.py line 7 runs the top level of model_accident.py.  The lists it
\* builds (xy, x_annee, y_gravite) are never read by app.py, so only the
\* outcome of the import is state: the process goes on, or dies on ValueError
ImportModelAccident ==
    /\ phase = "boot"
    /\ \E rows \in Files :
         LET m == ModuleLevelXY(rows)
         IN  IF m.exc # "none"
             THEN /\ phase' = "crashed"
                  /\ result' = Raised("import", <<rows>>, m.exc)
             ELSE /\ phase' = "serving"
                  /\ result' = Returned("import", <<rows>>, None)
    /\ UNCHANGED <<accidents, id_counter, model, created, trained_len,
                   tpc, taccident, tcounter>>

LoadDataFromCsv ==
    /\ Serving
    /\ \E rows \in Files :
         LET r == load_data_from_csv(rows, accidents, id_counter)
         IN  /\ Len(r.accidents) <= MaxStore
             /\ accidents' = r.accidents
             /\ id_counter' = r.id_counter
             /\ created' = created \cup
                   {r.accidents[i] : i \in (Len(accidents) + 1)..Len(r.accidents)}
             /\ model' = train_prediction_model(r.accidents, model)
             /\ trained_len' = IF Len(r.accidents) = 0 THEN trained_len
                               ELSE Len(r.accidents)
             /\ result' = Returned("load", <<rows>>, None)
    /\ UNCHANGED <<phase, tpc, taccident, tcounter>>

TrainPredictionModel ==
    /\ Serving
    /\ model' = train_prediction_model(accidents, model)
    /\ trained_len' = IF Len(accidents) = 0 THEN trained_len ELSE Len(accidents)
    /\ result' = Returned("train", <<>>, None)
    /\ UNCHANGED <<phase, accidents, id_counter, created,
                   tpc, taccident, tcounter>>

PredictGravite ==
    /\ Serving
    /\ \E annee \in PredictInputs :
         result' = Returned("predict", <<annee>>, predict_gravite(model, annee))
    /\ UNCHANGED <<phase, accidents, id_counter, model, created,
                   trained_len, tpc, taccident, tcounter>>

AddAccident ==
    /\ Serving
    /\ Len(accidents) < MaxStore
    /\ \E in \in AddInputs :
         LET r == add_accident(accidents, id_counter, in[1], in[2])
         IN  /\ accidents' = r.accidents
             /\ id_counter' = r.id_counter
             /\ created' = created \cup {r.accident}
             /\ result' = Returned("add", <<in[1], in[2]>>, r.accident)
    /\ UNCHANGED <<phase, model, trained_len, tpc, taccident, tcounter>>

GetAllAccidents ==
    /\ Serving
    /\ \E page \in PageInputs, per_page \in PerPageInputs :
         LET r == get_all_accidents(accidents, page, per_page)
         IN  result' = [op |-> "list", args |-> <<page, per_page>>,
                        exc |-> r.exc, value |-> r.value]
    /\ UNCHANGED <<phase, accidents, id_counter, model, created,
                   trained_len, tpc, taccident, tcounter>>

GetAccidentById ==
    /\ Serving
    /\ \E id \in IdInputs :
         result' = Returned("get", <<id>>, get_accident_by_id(accidents, id))
    /\ UNCHANGED <<phase, accidents, id_counter, model, created,
                   trained_len, tpc, taccident, tcounter>>

GetStats ==
    /\ Serving
    /\ result' = Returned("stats", <<>>, get_stats(accidents))
    /\ UNCHANGED <<phase, accidents, id_counter, model, created,
                   trained_len, tpc, taccident, tcounter>>

Next ==
    \/ ImportModelAccident
    \/ LoadDataFromCsv
    \/ TrainPredictionModel
    \/ PredictGravite
    \/ AddAccident
    \/ GetAllAccidents
    \/ GetAccidentById
    \/ GetStats

Spec == Init /\ [][Next]_vars

\* ------------------------------------------- thread-per-request serving
\* app.run serves each request on its own thread and add_accident takes no
\* lock, so the statements of concurrent add_accident calls interleave:
\* lines 109-113, line 114, and the read and the write of line 115.
InitThreads ==
    /\ phase = "serving"
    /\ accidents = <<>>
    /\ id_counter = 1
    /\ model = None
    /\ result = Returned("import", <<<<>>>>, None)
    /\ created = {}
    /\ trained_len = 0
    /\ tpc = [t \in Threads |-> "idle"]
    /\ taccident = [t \in Threads |-> None]
    /\ tcounter = [t \in Threads |-> 0]

Pending == {t \in Threads : tpc[t] = "append"}

BuildAccident(t) ==
    /\ Serving
    /\ tpc[t] = "idle"
    /\ Len(accidents) + Cardinality(Pending) < MaxStore
    /\ \E in \in AddInputs :
         taccident' = [taccident EXCEPT ![t] =
             Some([id |-> id_counter, annee |-> in[1], gravite |-> in[2]])]
    /\ tpc' = [tpc EXCEPT ![t] = "append"]
    /\ UNCHANGED <<phase, accidents, id_counter, model, result, created,
                   trained_len, tcounter>>

AppendAccident(t) ==
    /\ tpc[t] = "append"
    /\ accidents' = Append(accidents, taccident[t][1])
    /\ tpc' = [tpc EXCEPT ![t] = "read"]
    /\ UNCHANGED <<phase, id_counter, model, result, created, trained_len,
                   taccident, tcounter>>

ReadCounter(t) ==
    /\ tpc[t] = "read"
    /\ tcounter' = [tcounter EXCEPT ![t] = id_counter]
    /\ tpc' = [tpc EXCEPT ![t] = "write"]
    /\ UNCHANGED <<phase, accidents, id_counter, model, result, created,
                   trained_len, taccident>>

WriteCounter(t) ==
    /\ tpc[t] = "write"
    /\ id_counter' = tcounter[t] + 1
    /\ result' = Returned("add",
                          <<taccident[t][1].annee, taccident[t][1].gravite>>,
                          taccident[t][1])
    /\ created' = created \cup {taccident[t][1]}
    /\ tpc' = [tpc EXCEPT ![t] = "idle"]
    /\ taccident' = [taccident EXCEPT ![t] = None]
    /\ tcounter' = [tcounter EXCEPT ![t] = 0]
    /\ UNCHANGED <<phase, accidents, model, trained_len>>

NextThreads ==
    \E t \in Threads :
        \/ BuildAccident(t)
        \/ AppendAccident(t)
        \/ ReadCounter(t)
        \/ WriteCounter(t)

SpecThreads == InitThreads /\ [][NextThreads]_vars

\* ================================================================ claims
Pairs(accs) == [i \in 1..Len(accs) |-> <<accs[i].annee, accs[i].gravite>>]

IsCall(op) == result.op = op /\ result.exc = "none"

\* C1: with calls running one after the other, the i-th stored accident has
\* id i, id_counter is the number of stored accidents plus one, and a page
\* returned by get_all_accidents lists the records in insertion order
\* (ascending, consecutive ids).
C1_IdsFollowInsertionOrder ==
    /\ \A i \in 1..Len(accidents) : accidents[i].id = i
    /\ id_counter = Len(accidents) + 1
    /\ (IsCall("list") /\ result.args[1] >= 1 /\ result.args[2] >= 1) =>
          LET items == result.value[1].items
          IN  \A j \in 1..Len(items) :
                 /\ items[j].id = (result.args[1] - 1) * result.args[2] + j
                 /\ items[j] = accidents[items[j].id]

C1_Witness ==
    /\ Len(accidents) >= 4
    /\ IsCall("list")
    /\ result.args = <<2, 2>>
    /\ Len(result.value[1].items) = 2

\* C2: for page >= 1 and per_page >= 1, get_all_accidents returns the
\* records at 0-based positions [(page-1)*per_page, page*per_page) that
\* exist, total = number of records, page = the requested page and
\* pages = ceil(total / per_page).
C2_PageIsClippedSlice ==
    (IsCall("list") /\ result.args[1] >= 1 /\ result.args[2] >= 1) =>
        LET v == result.value[1]
            page == result.args[1]
            per_page == result.args[2]
            n == Len(accidents)
            first == (page - 1) * per_page
            cnt == Cardinality({k \in first..(first + per_page - 1) : k < n})
        IN  /\ Len(v.items) = cnt
            /\ \A j \in 1..cnt : v.items[j] = accidents[first + j]
            /\ v.total = n
            /\ v.page = page
            /\ v.pages * per_page >= n
            /\ (v.pages - 1) * per_page < n

C2_Witness ==
    /\ Len(accidents) = 5
    /\ IsCall("list")
    /\ result.args = <<3, 2>>
    /\ result.value[1].items = <<accidents[5]>>
    /\ result.value[1].pages = 3

\* C3: for per_page >= 1, get_all_accidents called with a page outside
\* 1..pages (page 0, a negative page, a page past the last one) returns an
\* empty items list.
C3_OutOfRangePageIsEmpty ==
    (/\ IsCall("list")
     /\ result.args[2] >= 1
     /\ (result.args[1] < 1 \/ result.args[1] > result.value[1].pages))
        => result.value[1].items = <<>>

\* C4: the model starts Untrained; it becomes Trained only through
\* train_prediction_model running on a non-empty store (a train on an empty
\* store changes nothing); once Trained it stays Trained; and
\* predict_gravite returns the "model not trained" error exactly when the
\* model is Untrained.
C4_TrainedOnlyByTrain ==
    /\ model = None
    /\ [][ /\ (model = None /\ model' # None) =>
                (result'.op \in {"train", "load"} /\ Len(accidents') > 0)
           /\ (result'.op = "train" /\ Len(accidents) = 0) => model' = model
           /\ model # None => model' # None
           /\ result'.op = "predict" =>
                (("error" \in DOMAIN result'.value) <=> model' = None)
         ]_vars

C4_Witness ==
    /\ model # None
    /\ IsCall("predict")
    /\ "gravite_predite" \in DOMAIN result.value

\* C5: every record add_accident has returned is what get_accident_by_id
\* returns for its id at any later point, whatever was called in between;
\* an id that was never assigned gives None.
C5_CreatedAccidentsStay ==
    /\ \A r \in created : get_accident_by_id(accidents, r.id) = Some(r)
    /\ IsCall("get") =>
          IF \E r \in created : r.id = result.args[1]
          THEN \E r \in created : r.id = result.args[1] /\ result.value = Some(r)
          ELSE result.value = None

C5_Witness ==
    /\ Len(accidents) >= 3
    /\ model # None
    /\ IsCall("get")
    /\ result.args = <<2>>
    /\ result.value = Some(accidents[2])

\* C6: no operation of the store or of the model raises to its caller,
\* whatever integers it is given (per_page = 0 and negative included).
C6_NoOperationRaises ==
    result.op \in {"add", "list", "get", "stats", "train", "predict"}
        => result.exc = "none"

\* A row is kept when it has more than 8 fields and both conversions give a
\* value > -1
KeptRow(d) ==
    /\ Len(d) > 8
    /\ convert_annee(StripQuotes(d[9])).exc = "none"
    /\ convert_annee(StripQuotes(d[9])).val > 0 - 1
    /\ convert_grav(StripQuotes(d[7])) > 0 - 1

KeptPairs(rows) ==
    LET kept == SelectSeq(rows, KeptRow)
    IN  [i \in 1..Len(kept) |->
            <<convert_annee(StripQuotes(kept[i][9])).val,
              convert_grav(StripQuotes(kept[i][7]))>>]

\* C7: ingesting any rows never raises; it stores one accident per kept row,
\* in file order with consecutive ids, skips every other row and goes on
\* with the rows after it; every accident so stored has annee > -1 and
\* gravite in {1, 100, 10, 5}.
C7_IngestionSkipsBadRows ==
    /\ result.op \in {"import", "load"} => result.exc = "none"
    /\ result.op = "load" =>
          LET want == KeptPairs(result.args[1])
              base == Len(accidents) - Len(want)
          IN  /\ base >= 0
              /\ \A j \in 1..Len(want) :
                    /\ accidents[base + j].id = base + j
                    /\ accidents[base + j].annee = want[j][1]
                    /\ accidents[base + j].gravite = want[j][2]
                    /\ want[j][1] > 0 - 1
                    /\ want[j][2] \in {1, 100, 10, 5}

\* What load_data_from_csv does on its own: each call appends exactly the
\* kept rows of the file and raises nothing, rows that make convert_annee
\* raise ValueError included.
LoadAppendsKeptRows ==
    [][ result'.op = "load" =>
           /\ result'.exc = "none"
           /\ Pairs(accidents') = Pairs(accidents) \o KeptPairs(result'.args[1])
      ]_vars

LoadSkippedValueError ==
    /\ result.op = "load"
    /\ \E i \in 1..Len(result.args[1]) :
          /\ Len(result.args[1][i]) > 8
          /\ convert_annee(StripQuotes(result.args[1][i][9])).exc = "ValueError"
    /\ Len(accidents) > 0

\* C8: get_stats returns total_accidents = number of records; all zeros on
\* an empty store; otherwise the means of annee and of gravite rounded to two
\* decimals (the nearest hundredth of sum / count); records (2020,1),(2021,5)
\* give 2, 2020.5 and 3.0.
C8_StatsAreRoundedMeans ==
    IsCall("stats") =>
        LET v == result.value
            n == Len(accidents)
            sa == PySum([i \in 1..n |-> accidents[i].annee])
            sg == PySum([i \in 1..n |-> accidents[i].gravite])
            Near(h, sum) == /\ 2 * (h * n - 100 * sum) <= n
                            /\ 2 * (100 * sum - h * n) <= n
        IN  /\ v.total_accidents = n
            /\ n = 0 => (v.annee_moyenne = 0 /\ v.gravite_moyenne = 0)
            /\ n > 0 => (Near(v.annee_moyenne, sa) /\ Near(v.gravite_moyenne, sg))
            /\ Pairs(accidents) = << <<2020, 1>>, <<2021, 5>> >> =>
                  v = [total_accidents |-> 2, annee_moyenne |-> 202050,
                       gravite_moyenne |-> 300]

C8_Witness ==
    /\ IsCall("stats")
    /\ Len(accidents) = 3
    /\ result.value.gravite_moyenne = 367

\* C9: the fitted model is the fit over the records present at the last
\* effective train_prediction_model call; add_accident leaves it as it is,
\* so predict_gravite keeps answering from that snapshot until a new train
\* call replaces it with the fit over the records present then.
C9_ModelIsLastTrainSnapshot ==
    /\ model = IF trained_len = 0 THEN None
               ELSE Some(Fit(SubSeq(accidents, 1, trained_len)))
    /\ (result.op = "train" /\ Len(accidents) > 0) => trained_len = Len(accidents)
    /\ (IsCall("predict") /\ trained_len > 0) =>
          result.value.gravite_predite =
             Predict(Fit(SubSeq(accidents, 1, trained_len)), result.args[1])

C9_Witness ==
    /\ trained_len > 0
    /\ Len(accidents) > trained_len
    /\ IsCall("predict")
    /\ result.value.gravite_predite # Predict(Fit(accidents), result.args[1])

\* C10: with add_accident calls of several request threads interleaving,
\* stored ids stay pairwise distinct and no increment of id_counter is lost
\* (id_counter = number of stored accidents + 1 when no add is in progress).
C10_ConcurrentAddsKeepIdsUnique ==
    /\ \A i, j \in 1..Len(accidents) :
          i # j => accidents[i].id # accidents[j].id
    /\ (\A t \in Threads : tpc[t] = "idle") => id_counter = Len(accidents) + 1

====
